---- MODULE Spec2Model ----
(***************************************************************************)
(* StealthyScraper: main.go (CLI) and requester.SendRequest.               *)
(*                                                                         *)
(* Strings on which the code does character work (profile names, methods,  *)
(* header keys and values, -H arguments) are sequences of one-character    *)
(* strings, so that strings.ToLower, strings.ToUpper, strings.TrimSpace,   *)
(* strings.SplitN and http.Header's key canonicalisation are computed and  *)
(* not assumed.                                                            *)
(***************************************************************************)
EXTENDS Integers, Sequences, FiniteSets, TLC

VARIABLES
    input,       \* what the caller starts from: CLI flags (main) or a RequestParams (library)
    pc,          \* position of the caller / of SendRequest
    params,      \* requester.RequestParams passed to SendRequest
    clientHello, \* utls.ClientHelloID selected by SendRequest
    req,         \* the *http.Request built by SendRequest
    result,      \* what SendRequest returned: response or error, with the phase that failed
    body,        \* state of resp.Body: "none", "open", "eof", "failed", "closed"
    target,      \* URL of the hop client.Do is working on
    redirects,   \* redirects followed so far by client.Do
    conns,       \* connections opened by this invocation's transport
    cur,         \* index in conns of the connection carrying the current hop, 0 if none
    dial,        \* the dial in progress: [st, custom, conn, waited]
    lastDial,    \* what the last finished call of the dial function did and returned
    stats,       \* counters: plain connections opened, handshakes run, requests written
    prev,        \* what the previous invocation with the same input produced
    invocation   \* number of the current invocation

vars == <<input, pc, params, clientHello, req, result, body, target, redirects,
          conns, cur, dial, lastDial, stats, prev, invocation>>

netvars == <<body, target, redirects, conns, cur, dial, lastDial, stats>>

-----------------------------------------------------------------------------
(* Bounds *)

MaxHeaderArgs == 2
MaxInvocations == 2
MaxRedirects == 2

-----------------------------------------------------------------------------
(* Characters and case folding (strings.ToLower, strings.ToUpper on ASCII) *)

Lowers == <<"a","b","c","d","e","f","g","h","i","j","k","l","m",
            "n","o","p","q","r","s","t","u","v","w","x","y","z">>
Uppers == <<"A","B","C","D","E","F","G","H","I","J","K","L","M",
            "N","O","P","Q","R","S","T","U","V","W","X","Y","Z">>

IsLower(c) == \E i \in 1..Len(Lowers) : Lowers[i] = c
IsUpper(c) == \E i \in 1..Len(Uppers) : Uppers[i] = c

ToLowerChar(c) ==
    IF IsUpper(c) THEN Lowers[CHOOSE i \in 1..Len(Uppers) : Uppers[i] = c] ELSE c

ToUpperChar(c) ==
    IF IsLower(c) THEN Uppers[CHOOSE i \in 1..Len(Lowers) : Lowers[i] = c] ELSE c

ToLower(s) == [i \in 1..Len(s) |-> ToLowerChar(s[i])]

ToUpper(s) == [i \in 1..Len(s) |-> ToUpperChar(s[i])]

IsSpace(c) == c = " "

RECURSIVE TrimLeft(_)
TrimLeft(s) ==
    IF s # <<>> /\ IsSpace(Head(s)) THEN TrimLeft(Tail(s)) ELSE s

RECURSIVE TrimRight(_)
TrimRight(s) ==
    IF s # <<>> /\ IsSpace(s[Len(s)]) THEN TrimRight(SubSeq(s, 1, Len(s) - 1)) ELSE s

TrimSpace(s) == TrimRight(TrimLeft(s))

\* textproto.CanonicalMIMEHeaderKey, which http.Header.Set applies to its key:
\* a key holding a space (or any non-token byte) is returned unchanged; otherwise
\* the first letter and every letter after a hyphen is upper-cased, the rest
\* lower-cased.
CanonicalKey(k) ==
    IF \E i \in 1..Len(k) : IsSpace(k[i])
    THEN k
    ELSE [i \in 1..Len(k) |->
            IF i = 1 \/ k[i - 1] = "-" THEN ToUpperChar(k[i]) ELSE ToLowerChar(k[i])]

-----------------------------------------------------------------------------
(* String constants of the source *)

chrome == <<"c","h","r","o","m","e">>
firefox == <<"f","i","r","e","f","o","x">>
ios == <<"i","o","s">>
safari == <<"s","a","f","a","r","i">>
random == <<"r","a","n","d","o","m">>

UserAgentKey == <<"U","s","e","r","-","A","g","e","n","t">>

\* The three User-Agent literals; no character work is done on them, so each is
\* kept as one piece.
UAChrome == <<"Mozilla/5.0 (Windows NT 10.0; Win64; x64) AppleWebKit/537.36 (KHTML, like Gecko) Chrome/108.0.0.0 Safari/537.36">>
UAFirefox == <<"Mozilla/5.0 (Windows NT 10.0; Win64; x64; rv:108.0) Gecko/20100101 Firefox/108.0">>
UASafari == <<"Mozilla/5.0 (Macintosh; Intel Mac OS X 10_15_7) AppleWebKit/605.1.15 (KHTML, like Gecko) Version/16.1 Safari/605.1.15">>

GET == <<"G","E","T">>

-----------------------------------------------------------------------------
(* main.go: the -H flag *)

EmptyMap == [k \in {} |-> <<>>]

\* Index of the first ":" of s, 0 when there is none (strings.SplitN(value, ":", 2)).
FirstColon(s) ==
    IF \E i \in 1..Len(s) : s[i] = ":"
    THEN CHOOSE i \in 1..Len(s) : s[i] = ":" /\ \A j \in 1..(i - 1) : s[j] # ":"
    ELSE 0

\* headersFlag.Set: one -H argument applied to the map h.
HeadersFlagSet(h, value) ==
    LET c == FirstColon(value) IN
    IF c = 0
    THEN [ok |-> FALSE, map |-> h]
    ELSE [ok |-> TRUE,
          map |-> (TrimSpace(SubSeq(value, 1, c - 1)) :> TrimSpace(SubSeq(value, c + 1, Len(value))))
                  @@ h]

\* flag.Parse calling headersFlag.Set once per -H argument, in command-line order;
\* the first malformed argument stops the parse.
RECURSIVE ParseHeaderFlags(_, _)
ParseHeaderFlags(h, values) ==
    IF values = <<>>
    THEN [ok |-> TRUE, map |-> h]
    ELSE LET r == HeadersFlagSet(h, Head(values)) IN
         IF r.ok THEN ParseHeaderFlags(r.map, Tail(values)) ELSE r

-----------------------------------------------------------------------------
(* requester.SendRequest, up to client.Do *)

\* ClientHelloID comparing the name as given, without strings.ToLower.
ClientHelloID_CaseSensitive(name) ==
    CASE name = chrome  -> "HelloChrome_108"
      [] name = firefox -> "HelloFirefox_108"
      [] name = ios     -> "HelloIOS_16"
      [] name = safari  -> "HelloSafari_16_0"
      [] name = random  -> "HelloRandomized"
      [] OTHER          -> "HelloChrome_108"

\* The switch on strings.ToLower(params.JA3Profile) selecting the utls.ClientHelloID.
ClientHelloID(name) ==
    LET n == ToLower(name) IN
    CASE n = chrome  -> "HelloChrome_108"
      [] n = firefox -> "HelloFirefox_108"
      [] n = ios     -> "HelloIOS_16"
      [] n = safari  -> "HelloSafari_16_0"
      [] n = random  -> "HelloRandomized"
      [] OTHER       -> "HelloChrome_108"

\* The switch on strings.ToLower(params.JA3Profile) selecting the default User-Agent.
DefaultUserAgent(name) ==
    LET n == ToLower(name) IN
    CASE n = chrome  -> UAChrome
      [] n = firefox -> UAFirefox
      [] n = safari  -> UASafari
      [] OTHER       -> UAChrome

\* net/http's validMethod: a non-empty token (letters here; a space is no token byte).
ValidMethod(m) == m # <<>> /\ \A i \in 1..Len(m) : IsLower(m[i]) \/ IsUpper(m[i])

\* url.Parse on the URLs of the model: scheme and host, or the parse error.
ParseURL(u) ==
    CASE u = "https://a.example/" -> [ok |-> TRUE, scheme |-> "https", host |-> "a.example"]
      [] u = "https://b.example/" -> [ok |-> TRUE, scheme |-> "https", host |-> "b.example"]
      [] u = "http://a.example/"  -> [ok |-> TRUE, scheme |-> "http", host |-> "a.example"]
      [] OTHER                    -> [ok |-> FALSE, scheme |-> "", host |-> ""]

\* A NewRequest that upper-cases the method it is given.
NewRequest_UpperCasing(method, url, data) ==
    LET m == IF method = <<>> THEN GET ELSE ToUpper(method)
        u == ParseURL(url)
    IN  IF ~ValidMethod(m)
        THEN [ok |-> FALSE, err |-> "net/http: invalid method"]
        ELSE IF ~u.ok
        THEN [ok |-> FALSE, err |-> "parse: missing protocol scheme"]
        ELSE [ok |-> TRUE, err |-> "",
              req |-> [Method |-> m,
                       URL |-> [raw |-> url, scheme |-> u.scheme, host |-> u.host],
                       Body |-> data,
                       Header |-> EmptyMap]]

\* http.NewRequest(params.Method, params.URL, bodyReader): an empty method means
\* GET, the method is validated but not changed, the URL is parsed, the body is
\* the reader's content.
NewRequest(method, url, data) ==
    LET m == IF method = <<>> THEN GET ELSE method
        u == ParseURL(url)
    IN  IF ~ValidMethod(m)
        THEN [ok |-> FALSE, err |-> "net/http: invalid method"]
        ELSE IF ~u.ok
        THEN [ok |-> FALSE, err |-> "parse: missing protocol scheme"]
        ELSE [ok |-> TRUE, err |-> "",
              req |-> [Method |-> m,
                       URL |-> [raw |-> url, scheme |-> u.scheme, host |-> u.host],
                       Body |-> data,
                       Header |-> EmptyMap]]

\* http.Header.Add in the place of Set: the value is appended to the key's values.
HeaderSet_Append(h, k, v) ==
    LET c == CanonicalKey(k) IN
    (c :> (IF c \in DOMAIN h THEN Append(h[c], v) ELSE <<v>>)) @@ h

\* http.Header.Set: the canonical key gets the single value v.
HeaderSet(h, k, v) == (CanonicalKey(k) :> <<v>>) @@ h

\* The orders in which `for key, value := range params.Headers` may visit the map:
\* Go leaves the iteration order of a map unspecified.
RangeOrders(m) ==
    LET n == Cardinality(DOMAIN m) IN
    {o \in [1..n -> DOMAIN m] : \A i, j \in 1..n : i # j => o[i] # o[j]}

\* The loop `req.Header.Set(key, value)` over params.Headers, visiting in `order`.
RECURSIVE ApplyHeaders(_, _, _)
ApplyHeaders(h, m, order) ==
    IF Len(order) = 0
    THEN h
    ELSE ApplyHeaders(HeaderSet(h, order[1], m[order[1]]), m,
                      [i \in 1..(Len(order) - 1) |-> order[i + 1]])

\* The headers of the request: the default User-Agent when params.Headers has no
\* "User-Agent" key (exact spelling), then every entry of params.Headers.
AssembleHeaders(p, order) ==
    LET h0 == IF UserAgentKey \notin DOMAIN p.Headers
              THEN HeaderSet(EmptyMap, UserAgentKey, DefaultUserAgent(p.JA3Profile))
              ELSE EmptyMap
    IN  ApplyHeaders(h0, p.Headers, order)

NoRequest == [Method |-> <<>>, URL |-> [raw |-> "", scheme |-> "", host |-> ""],
              Body |-> "", Header |-> EmptyMap]

NoResult == [kind |-> "none", phase |-> "none", err |-> ""]

NoTarget == [scheme |-> "", host |-> ""]

NoDial == [st |-> "none", custom |-> FALSE, conn |-> 0, waited |-> FALSE]

NoLastDial == [phase |-> "none", raw |-> 0, conn |-> 0, err |-> ""]

NoStats == [dials |-> 0, handshakes |-> 0, requests |-> 0]

NoPrev == [done |-> FALSE, hello |-> "", hasReq |-> FALSE, Header |-> EmptyMap,
           hasErr |-> FALSE, phase |-> "none", err |-> ""]

NoParams == [URL |-> "", Method |-> <<>>, JA3Profile |-> <<>>,
             Headers |-> EmptyMap, RequestBody |-> ""]

-----------------------------------------------------------------------------
(* Inputs *)

edge == <<"e","d","g","e">>
chromee == <<"c","h","r","o","m","e","e">>
lcGET == <<"g","e","t">>
POST == <<"P","O","S","T">>
SpacedMethod == <<"B"," ","D">>
ArgUserAgentX == <<"U","s","e","r","-","A","g","e","n","t",":"," ","X">>
ArgLowerUserAgentY == <<"u","s","e","r","-","a","g","e","n","t",":","Y">>
ArgXA1 == <<"X","-","A",":"," ","1">>
ArgLowerXA2 == <<" ","x","-","a"," ",":"," ","2"," ">>
ArgNoColon == <<"b","a","d">>
LowerUserAgentKey == <<"u","s","e","r","-","a","g","e","n","t">>
XAKey == <<"X","-","A">>
LowerXAKey == <<"x","-","a">>

\* Every spelling of w that differs from it only in letter case.
RECURSIVE CaseVariants(_)
CaseVariants(w) ==
    IF w = <<>>
    THEN {<<>>}
    ELSE {<<c>> \o t : c \in {Head(w), ToUpperChar(Head(w))}, t \in CaseVariants(Tail(w))}

Capitalized(w) == [i \in 1..Len(w) |-> IF i = 1 THEN ToUpperChar(w[i]) ELSE w[i]]

KnownNames == {chrome, firefox, ios, safari, random}

UnknownNames == {<<>>, edge, chromee}

ProfileNames ==
    CaseVariants(ios)
    \cup KnownNames
    \cup {Capitalized(w) : w \in KnownNames}
    \cup {ToUpper(firefox)}
    \cup UnknownNames

Methods == {GET, lcGET, <<>>, SpacedMethod}

URLs == {"https://a.example/", "://bad"}

Bodies == {"", "{\"a\":1}"}

\* -H arguments: two spellings of User-Agent, two of X-A, one without a colon.
HeaderArgs == {ArgUserAgentX, ArgLowerUserAgentY, ArgXA1, ArgLowerXA2, ArgNoColon}

HeaderArgLists == UNION {[1..n -> HeaderArgs] : n \in 0..MaxHeaderArgs}

LibKeys == {UserAgentKey, LowerUserAgentKey, XAKey, LowerXAKey}

LibValues == {<<"1">>, <<"2">>}

LibHeaderMaps ==
    UNION {[K -> LibValues] : K \in {S \in SUBSET LibKeys : Cardinality(S) <= MaxHeaderArgs}}

MainInputs ==
    [caller : {"main"}, method : Methods, ja3 : ProfileNames, data : Bodies,
     H : HeaderArgLists, args : {<<>>} \cup {<<u>> : u \in URLs}]

LibInputs ==
    [caller : {"lib"},
     params : [URL : URLs, Method : Methods, JA3Profile : ProfileNames,
               Headers : LibHeaderMaps, RequestBody : Bodies]]

-----------------------------------------------------------------------------
(* The callers and the synchronous part of SendRequest *)

\* main: flag.Parse (a malformed -H ends the process), the check for exactly one
\* URL, and the RequestParams it passes to SendRequest.
Main ==
    /\ pc = "start"
    /\ input.caller = "main"
    /\ LET h == ParseHeaderFlags(EmptyMap, input.H) IN
       IF ~h.ok \/ Len(input.args) # 1
       THEN /\ pc' = "exited"
            /\ UNCHANGED params
       ELSE /\ pc' = "call"
            /\ params' = [URL |-> input.args[1],
                          Method |-> ToUpper(input.method),
                          JA3Profile |-> input.ja3,
                          Headers |-> h.map,
                          RequestBody |-> input.data]
    /\ UNCHANGED <<input, clientHello, req, result, prev, invocation>>
    /\ UNCHANGED netvars

\* A program importing the package calls SendRequest with its own RequestParams.
LibCall ==
    /\ pc = "start"
    /\ input.caller = "lib"
    /\ pc' = "call"
    /\ params' = input.params
    /\ UNCHANGED <<input, clientHello, req, result, prev, invocation>>
    /\ UNCHANGED netvars

\* SendRequest up to the call of client.Do: the ClientHelloID, the request, the
\* default User-Agent, the caller's headers. A request that cannot be built is
\* returned as an error.
SendRequest_Build ==
    /\ pc = "call"
    /\ \E order \in RangeOrders(params.Headers) :
          LET r == NewRequest(params.Method, params.URL, params.RequestBody) IN
          /\ clientHello' = ClientHelloID(params.JA3Profile)
          /\ IF r.ok
             THEN /\ req' = [r.req EXCEPT !.Header = AssembleHeaders(params, order)]
                  /\ target' = [scheme |-> r.req.URL.scheme, host |-> r.req.URL.host]
                  /\ result' = NoResult
                  /\ pc' = "do"
             ELSE /\ req' = NoRequest
                  /\ target' = NoTarget
                  /\ result' = [kind |-> "err", phase |-> "build", err |-> r.err]
                  /\ pc' = "returned"
    /\ UNCHANGED <<input, params, prev, invocation>>
    /\ UNCHANGED <<body, redirects, conns, cur, dial, lastDial, stats>>

\* client.Do seen from the assembly: it ends with a response or with an error.
ClientDo ==
    /\ pc = "do"
    /\ pc' = "returned"
    /\ \E r \in {[kind |-> "resp", phase |-> "none", err |-> ""],
                 [kind |-> "err", phase |-> "transport", err |-> "EOF"]} : result' = r
    /\ UNCHANGED <<input, params, clientHello, req, prev, invocation>>
    /\ UNCHANGED netvars

\* The caller has the error (log.Fatalf) or is through with the response.
CallerDone ==
    /\ pc = "returned"
    /\ result.kind = "err" \/ body \in {"closed", "failed", "none"}
    /\ pc' = "done"
    /\ UNCHANGED <<input, params, clientHello, req, result, prev, invocation>>
    /\ UNCHANGED netvars

\* main returns or log.Fatalf ends the process: the OS closes what is open.
Main_Exit ==
    /\ pc = "done"
    /\ input.caller = "main"
    /\ pc' = "exited"
    /\ conns' = [i \in 1..Len(conns) |-> [conns[i] EXCEPT !.open = FALSE, !.idle = FALSE]]
    /\ dial' = NoDial
    /\ UNCHANGED <<input, params, clientHello, req, result, prev, invocation>>
    /\ UNCHANGED <<body, target, redirects, cur, lastDial, stats>>

\* What an invocation leaves for the comparison with the next one.
Outcome ==
    [done |-> TRUE,
     hello |-> clientHello,
     hasReq |-> req # NoRequest,
     Header |-> req.Header,
     hasErr |-> result.kind = "err",
     phase |-> result.phase,
     err |-> result.err]

\* The importing program calls SendRequest again with the same RequestParams.
\* Every call builds its own client and transport, so nothing of the previous
\* call is visible to the new one; prev keeps what the previous call produced.
Reinvoke ==
    /\ pc = "done"
    /\ input.caller = "lib"
    /\ invocation < MaxInvocations
    /\ invocation' = invocation + 1
    /\ prev' = Outcome
    /\ pc' = "call"
    /\ clientHello' = ""
    /\ req' = NoRequest
    /\ result' = NoResult
    /\ body' = "none"
    /\ target' = NoTarget
    /\ redirects' = 0
    /\ conns' = <<>>
    /\ cur' = 0
    /\ dial' = NoDial
    /\ lastDial' = NoLastDial
    /\ stats' = NoStats
    /\ UNCHANGED <<input, params>>

\* The command is run again with the same arguments: a new process.
Main_Rerun ==
    /\ pc = "exited"
    /\ input.caller = "main"
    /\ invocation < MaxInvocations
    /\ invocation' = invocation + 1
    /\ prev' = Outcome
    /\ pc' = "start"
    /\ params' = NoParams
    /\ clientHello' = ""
    /\ req' = NoRequest
    /\ result' = NoResult
    /\ body' = "none"
    /\ target' = NoTarget
    /\ redirects' = 0
    /\ conns' = <<>>
    /\ cur' = 0
    /\ dial' = NoDial
    /\ lastDial' = NoLastDial
    /\ stats' = NoStats
    /\ UNCHANGED input

InitWith(inputs) ==
    /\ input \in inputs
    /\ pc = "start"
    /\ params = NoParams
    /\ clientHello = ""
    /\ req = NoRequest
    /\ result = NoResult
    /\ body = "none"
    /\ target = NoTarget
    /\ redirects = 0
    /\ conns = <<>>
    /\ cur = 0
    /\ dial = NoDial
    /\ lastDial = NoLastDial
    /\ stats = NoStats
    /\ prev = NoPrev
    /\ invocation = 1

InitAssemble == InitWith(MainInputs \cup LibInputs)

NextAssemble ==
    \/ Main
    \/ LibCall
    \/ SendRequest_Build
    \/ ClientDo
    \/ CallerDone
    \/ Main_Exit
    \/ Reinvoke
    \/ Main_Rerun

SpecAssemble == InitAssemble /\ [][NextAssemble]_vars

-----------------------------------------------------------------------------
(* client.Do over the transport whose DialTLS is the dial function *)

\* What dialer.Dial, uconn.Handshake and client.Do return on failure: the errors
\* of net, utls and net/http, passed on by SendRequest as they are.
DialErrors == {"dial tcp: lookup a.example: no such host", "dial tcp: connect: connection refused"}

HandshakeErrors == {"remote error: tls: handshake failure", "EOF"}

TransportErrors == {"EOF", "read tcp: connection reset by peer"}

TimeoutError == "context deadline exceeded (Client.Timeout exceeded while awaiting headers)"

\* Where a server may redirect to.
RedirectTargets ==
    {[scheme |-> "https", host |-> "a.example"],
     [scheme |-> "https", host |-> "b.example"],
     [scheme |-> "http", host |-> "a.example"]}

NewConn(t, custom, hello) ==
    [scheme |-> t.scheme, host |-> t.host, custom |-> custom, hello |-> hello,
     tls |-> FALSE, open |-> TRUE, idle |-> FALSE, reused |-> FALSE,
     written |-> FALSE, keepAlive |-> FALSE]

CloseConn(cs, c) == [cs EXCEPT ![c].open = FALSE, ![c].idle = FALSE]

\* The body released: the transport keeps a keep-alive connection in its idle
\* pool (the Transport sets neither DisableKeepAlives nor IdleConnTimeout) and
\* closes any other.
ReleaseConn(cs, c) ==
    IF cs[c].keepAlive THEN [cs EXCEPT ![c].idle = TRUE] ELSE CloseConn(cs, c)

\* The error branch of the handshake keeping the connection open.
UConnClose_Missing(cs, c) == cs

\* uconn.Close() after a failed handshake: closes the raw connection under it.
UConnClose(cs, c) == CloseConn(cs, c)

IdleConnFor(t) ==
    {i \in 1..Len(conns) : conns[i].open /\ conns[i].idle
                           /\ conns[i].scheme = t.scheme /\ conns[i].host = t.host}

\* The transport gets a connection for the current hop: an idle one to the same
\* scheme and host, or a new dial; DialTLS is used for https only.
Transport_GetConn ==
    /\ pc = "do"
    /\ dial.st = "none"
    /\ IF IdleConnFor(target) # {}
       THEN \E i \in IdleConnFor(target) :
               /\ conns' = [conns EXCEPT ![i].idle = FALSE, ![i].reused = TRUE]
               /\ cur' = i
               /\ pc' = "roundtrip"
               /\ UNCHANGED dial
       ELSE /\ dial' = [st |-> "dialing", custom |-> target.scheme = "https",
                        conn |-> 0, waited |-> TRUE]
            /\ pc' = "wait"
            /\ UNCHANGED <<conns, cur>>
    /\ UNCHANGED <<input, params, clientHello, req, result, prev, invocation>>
    /\ UNCHANGED <<body, target, redirects, lastDial, stats>>

\* dialTLS, first part: dialer.Dial(network, addr). On failure the error is
\* returned as it is, before any handshake.
DialTLS_Dial ==
    /\ dial.st = "dialing"
    /\ dial.custom
    /\ stats' = [stats EXCEPT !.dials = @ + 1]
    /\ \/ /\ conns' = Append(conns, NewConn(target, TRUE, clientHello))
          /\ dial' = [dial EXCEPT !.st = "handshaking", !.conn = Len(conns) + 1]
          /\ UNCHANGED <<pc, result, lastDial>>
       \/ \E e \in DialErrors :
             /\ dial' = NoDial
             /\ lastDial' = [phase |-> "dial", raw |-> 0, conn |-> 0, err |-> e]
             /\ IF dial.waited
                THEN /\ pc' = "returned"
                     /\ result' = [kind |-> "err", phase |-> "dial", err |-> e]
                ELSE UNCHANGED <<pc, result>>
             /\ UNCHANGED conns
    /\ UNCHANGED <<input, params, clientHello, req, prev, invocation>>
    /\ UNCHANGED <<body, target, redirects, cur>>

\* dialTLS, second part: utls.UClient(rawConn, config, clientHello) and
\* uconn.Handshake(). On failure uconn.Close() and (nil, err); on success uconn.
\* A connection nobody waits for any more goes to the transport's idle pool.
DialTLS_Handshake ==
    /\ dial.st = "handshaking"
    /\ stats' = [stats EXCEPT !.handshakes = @ + 1]
    /\ dial' = NoDial
    /\ \/ /\ lastDial' = [phase |-> "handshake", raw |-> dial.conn, conn |-> dial.conn, err |-> ""]
          /\ IF dial.waited
             THEN /\ conns' = [conns EXCEPT ![dial.conn].tls = TRUE]
                  /\ cur' = dial.conn
                  /\ pc' = "roundtrip"
             ELSE /\ conns' = [conns EXCEPT ![dial.conn].tls = TRUE, ![dial.conn].idle = TRUE]
                  /\ UNCHANGED <<cur, pc>>
          /\ UNCHANGED result
       \/ \E e \in HandshakeErrors :
             /\ conns' = UConnClose(conns, dial.conn)
             /\ lastDial' = [phase |-> "handshake", raw |-> dial.conn, conn |-> 0, err |-> e]
             /\ IF dial.waited
                THEN /\ pc' = "returned"
                     /\ result' = [kind |-> "err", phase |-> "handshake", err |-> e]
                ELSE UNCHANGED <<pc, result>>
             /\ UNCHANGED cur
    /\ UNCHANGED <<input, params, clientHello, req, prev, invocation>>
    /\ UNCHANGED <<body, target, redirects>>

\* An http target: the transport dials by itself, DialTLS is not called.
Transport_PlainDial ==
    /\ dial.st = "dialing"
    /\ ~dial.custom
    /\ dial' = NoDial
    /\ stats' = [stats EXCEPT !.dials = @ + 1]
    /\ \/ /\ IF dial.waited
             THEN /\ conns' = Append(conns, NewConn(target, FALSE, ""))
                  /\ cur' = Len(conns) + 1
                  /\ pc' = "roundtrip"
             ELSE /\ conns' = Append(conns, [NewConn(target, FALSE, "") EXCEPT !.idle = TRUE])
                  /\ UNCHANGED <<cur, pc>>
          /\ UNCHANGED result
       \/ \E e \in DialErrors :
             /\ IF dial.waited
                THEN /\ pc' = "returned"
                     /\ result' = [kind |-> "err", phase |-> "dial", err |-> e]
                ELSE UNCHANGED <<pc, result>>
             /\ UNCHANGED <<conns, cur>>
    /\ UNCHANGED <<input, params, clientHello, req, prev, invocation>>
    /\ UNCHANGED <<body, target, redirects, lastDial>>

\* The request is written on the connection.
RoundTrip_Write ==
    /\ pc = "roundtrip"
    /\ conns' = [conns EXCEPT ![cur].written = TRUE]
    /\ stats' = [stats EXCEPT !.requests = @ + 1]
    /\ pc' = "await"
    /\ UNCHANGED <<input, params, clientHello, req, result, prev, invocation>>
    /\ UNCHANGED <<body, target, redirects, cur, dial, lastDial>>

\* A final response: client.Do returns it, the body is the caller's.
RoundTrip_Response ==
    /\ pc = "await"
    /\ \E ka \in BOOLEAN : conns' = [conns EXCEPT ![cur].keepAlive = ka]
    /\ result' = [kind |-> "resp", phase |-> "none", err |-> ""]
    /\ body' = "open"
    /\ pc' = "returned"
    /\ UNCHANGED <<input, params, clientHello, req, prev, invocation>>
    /\ UNCHANGED <<target, redirects, cur, dial, lastDial, stats>>

\* A redirect response: the client (no CheckRedirect, so the default policy)
\* drains and closes the body and sends the request to the new location.
Client_FollowRedirect ==
    /\ pc = "await"
    /\ redirects < MaxRedirects
    /\ \E ka \in BOOLEAN, loc \in RedirectTargets :
          /\ conns' = ReleaseConn([conns EXCEPT ![cur].keepAlive = ka], cur)
          /\ target' = loc
    /\ redirects' = redirects + 1
    /\ cur' = 0
    /\ pc' = "do"
    /\ UNCHANGED <<input, params, clientHello, req, result, prev, invocation>>
    /\ UNCHANGED <<body, dial, lastDial, stats>>

\* Reading the response fails: the connection is closed and client.Do returns
\* the error.
RoundTrip_Fail ==
    /\ pc = "await"
    /\ \E e \in TransportErrors :
          result' = [kind |-> "err", phase |-> "transport", err |-> e]
    /\ conns' = CloseConn(conns, cur)
    /\ cur' = 0
    /\ pc' = "returned"
    /\ UNCHANGED <<input, params, clientHello, req, prev, invocation>>
    /\ UNCHANGED <<body, target, redirects, dial, lastDial, stats>>

\* The same failure on a connection taken from the idle pool: the transport
\* may send the request again on another connection.
Transport_Retry ==
    /\ pc = "await"
    /\ conns[cur].reused
    /\ conns' = CloseConn(conns, cur)
    /\ cur' = 0
    /\ pc' = "do"
    /\ UNCHANGED <<input, params, clientHello, req, result, prev, invocation>>
    /\ UNCHANGED <<body, target, redirects, dial, lastDial, stats>>

\* Client.Timeout (60 s) expires before the response headers: client.Do returns
\* the timeout error. A connection in use is closed; a dial in progress is not
\* interrupted (DialTLS takes no context) and goes on without a waiter.
Client_Timeout ==
    /\ pc \in {"wait", "roundtrip", "await"}
    /\ result' = [kind |-> "err", phase |-> "transport", err |-> TimeoutError]
    /\ pc' = "returned"
    /\ IF cur # 0
       THEN conns' = CloseConn(conns, cur)
       ELSE UNCHANGED conns
    /\ cur' = 0
    /\ dial' = [dial EXCEPT !.waited = FALSE]
    /\ UNCHANGED <<input, params, clientHello, req, prev, invocation>>
    /\ UNCHANGED <<body, target, redirects, lastDial, stats>>

\* io.ReadAll(resp.Body): at the end of the body the transport has the
\* connection back; a read error (or the timeout) closes it.
Caller_ReadBody ==
    /\ pc = "returned"
    /\ result.kind = "resp"
    /\ body = "open"
    /\ \/ /\ body' = "eof"
          /\ conns' = ReleaseConn(conns, cur)
       \/ /\ body' = "failed"
          /\ conns' = CloseConn(conns, cur)
    /\ cur' = 0
    /\ UNCHANGED <<input, pc, params, clientHello, req, result, prev, invocation>>
    /\ UNCHANGED <<target, redirects, dial, lastDial, stats>>

\* The deferred resp.Body.Close().
Caller_CloseBody ==
    /\ pc = "returned"
    /\ body = "eof"
    /\ body' = "closed"
    /\ UNCHANGED <<input, pc, params, clientHello, req, result, prev, invocation>>
    /\ UNCHANGED <<target, redirects, conns, cur, dial, lastDial, stats>>

\* The inputs of the whole request: one of each kind of caller and target.
NetInputs ==
    {[caller |-> "main", method |-> lcGET, ja3 |-> Capitalized(chrome), data |-> "",
      H |-> <<>>, args |-> <<"https://a.example/">>],
     [caller |-> "main", method |-> POST, ja3 |-> Capitalized(firefox), data |-> "{\"a\":1}",
      H |-> <<ArgNoColon>>, args |-> <<"https://a.example/">>],
     [caller |-> "lib",
      params |-> [URL |-> "https://a.example/", Method |-> POST, JA3Profile |-> ios,
                  Headers |-> (XAKey :> <<"1">>), RequestBody |-> "{\"a\":1}"]],
     [caller |-> "lib",
      params |-> [URL |-> "http://a.example/", Method |-> GET, JA3Profile |-> safari,
                  Headers |-> EmptyMap, RequestBody |-> ""]],
     [caller |-> "lib",
      params |-> [URL |-> "://bad", Method |-> GET, JA3Profile |-> random,
                  Headers |-> EmptyMap, RequestBody |-> ""]]}

Init == InitWith(NetInputs)

Next ==
    \/ Main
    \/ LibCall
    \/ SendRequest_Build
    \/ Transport_GetConn
    \/ DialTLS_Dial
    \/ DialTLS_Handshake
    \/ Transport_PlainDial
    \/ RoundTrip_Write
    \/ RoundTrip_Response
    \/ Client_FollowRedirect
    \/ RoundTrip_Fail
    \/ Transport_Retry
    \/ Client_Timeout
    \/ Caller_ReadBody
    \/ Caller_CloseBody
    \/ CallerDone
    \/ Main_Exit
    \/ Reinvoke
    \/ Main_Rerun

Spec == Init /\ [][Next]_vars

-----------------------------------------------------------------------------
(* Properties of the request over the network (Spec) *)

\* C1: one invocation opens at most one plain connection, runs at most one
\* handshake and sends at most one request, whatever the server answers.
C1_AtMostOneOfEach ==
    /\ stats.dials <= 1
    /\ stats.handshakes <= 1
    /\ stats.requests <= 1

\* C2: request bytes are written only on connections the dial function produced,
\* after a completed handshake with the descriptor resolved from the profile name.
C2_RequestOnlyOverFingerprintedTLS ==
    \A i \in 1..Len(conns) :
        conns[i].written =>
            /\ conns[i].custom
            /\ conns[i].tls
            /\ conns[i].hello = clientHello

\* C3: when the handshake of the dial function fails, the dial function returns
\* an error and no connection, and the connection it opened is closed; no
\* connection of the dial function is open without a completed handshake, except
\* the one whose handshake is running.
C3_FailedHandshakeClosesConnection ==
    /\ (lastDial.phase = "handshake" /\ lastDial.err # "") =>
          /\ lastDial.conn = 0
          /\ lastDial.raw \in 1..Len(conns)
          /\ ~conns[lastDial.raw].open
    /\ \A i \in 1..Len(conns) :
          (conns[i].custom /\ ~conns[i].tls /\ conns[i].open) =>
              (dial.st = "handshaking" /\ dial.conn = i)

\* C3 witness: the handshake failed while the request waited for the connection.
C3_Witness ==
    /\ pc = "returned"
    /\ result.phase = "handshake"
    /\ lastDial.phase = "handshake"
    /\ lastDial.err = "remote error: tls: handshake failure"
    /\ ~conns[lastDial.raw].open

\* C4: the returned error identifies the phase that failed: a dial failure is
\* reported by a dial error and no handshake error, no handshake is attempted
\* after a failed dial, and errors of different phases are distinguishable: the
\* same error is never returned for failures of two different phases.
C4_ErrorIdentifiesPhase ==
    /\ result.phase = "dial" => (result.err \in DialErrors /\ result.err \notin HandshakeErrors)
    /\ lastDial.phase = "dial" => (lastDial.raw = 0 /\ lastDial.conn = 0)
    /\ (result.kind = "err" /\ prev.hasErr /\ prev.err = result.err) => prev.phase = result.phase

\* C5: once the caller is through with the response, or has the error, every
\* connection the invocation opened is closed; none is kept open for reuse.
C5_ConnectionsClosedWhenRequestEnds ==
    pc = "done" => \A i \in 1..Len(conns) : ~conns[i].open

-----------------------------------------------------------------------------
(* Properties of profile resolution and request assembly (SpecAssemble) *)

\* a and b are the same word up to the case of their letters.
SameFold(a, b) ==
    /\ Len(a) = Len(b)
    /\ \A i \in 1..Len(a) : ToUpperChar(a[i]) = ToUpperChar(b[i])

\* The keys of the caller's mapping that spell User-Agent in some letter case.
UserAgentSpellings(m) == {k \in DOMAIN m : SameFold(k, UserAgentKey)}

Assembled == pc = "do"

\* C6: a User-Agent supplied by the caller, under any letter-case spelling of the
\* key, is the request's only User-Agent value; without one, the request carries
\* exactly one User-Agent value, the default of the profile.
C6_UserAgentPrecedence ==
    Assembled =>
        /\ \A k \in DOMAIN req.Header : SameFold(k, UserAgentKey) => k = UserAgentKey
        /\ UserAgentKey \in DOMAIN req.Header
        /\ Len(req.Header[UserAgentKey]) = 1
        /\ IF UserAgentSpellings(params.Headers) # {}
           THEN req.Header[UserAgentKey][1]
                    \in {params.Headers[k] : k \in UserAgentSpellings(params.Headers)}
           ELSE req.Header[UserAgentKey][1] = DefaultUserAgent(params.JA3Profile)

\* C6 witness: the caller's lower-case user-agent key replaced the default.
C6_Witness ==
    /\ Assembled
    /\ DOMAIN params.Headers = {LowerUserAgentKey}
    /\ req.Header[UserAgentKey] = <<params.Headers[LowerUserAgentKey]>>

Descriptors ==
    {"HelloChrome_108", "HelloFirefox_108", "HelloIOS_16", "HelloSafari_16_0", "HelloRandomized"}

Resolved == clientHello # ""

\* C7: resolution is total and case-insensitive: a name that is chrome, firefox,
\* ios, safari or random up to letter case selects that profile's descriptor, any
\* other name selects chrome's, a build error never comes from the profile name,
\* and a second resolution of a non-random name selects the same descriptor.
C7_ResolutionTotalCaseInsensitive ==
    Resolved =>
        LET n == params.JA3Profile IN
        /\ clientHello \in Descriptors
        /\ SameFold(n, chrome) => clientHello = "HelloChrome_108"
        /\ SameFold(n, firefox) => clientHello = "HelloFirefox_108"
        /\ SameFold(n, ios) => clientHello = "HelloIOS_16"
        /\ SameFold(n, safari) => clientHello = "HelloSafari_16_0"
        /\ SameFold(n, random) => clientHello = "HelloRandomized"
        /\ (\A w \in KnownNames : ~SameFold(n, w)) => clientHello = "HelloChrome_108"
        /\ result.phase = "build" =>
              \/ ~ValidMethod(IF params.Method = <<>> THEN GET ELSE params.Method)
              \/ ~ParseURL(params.URL).ok
        /\ (prev.done /\ prev.hello # "" /\ ~SameFold(n, random)) => prev.hello = clientHello

\* C7 witness: the mixed-case name iOs resolved in a second invocation as in the first.
C7_Witness ==
    /\ Resolved
    /\ invocation = 2
    /\ params.JA3Profile = <<"i", "O", "s">>
    /\ clientHello = "HelloIOS_16"
    /\ prev.hello = "HelloIOS_16"

\* C8 as stated: the request's method is the upper-cased form of the method
\* passed to SendRequest, its target the URL and its body the body passed.
C8_MethodUpperCased ==
    Assembled =>
        /\ req.Method = ToUpper(params.Method)
        /\ req.URL.raw = params.URL
        /\ req.Body = params.RequestBody

\* C8 amended: the request's method is the method passed to SendRequest,
\* unchanged, GET when it is empty; it is main that upper-cases the -method flag
\* before the call. Target and body are the URL and body passed.
C8_MethodPassedThrough ==
    Assembled =>
        /\ req.Method = (IF params.Method = <<>> THEN GET ELSE params.Method)
        /\ input.caller = "main" =>
              req.Method = (IF input.method = <<>> THEN GET ELSE ToUpper(input.method))
        /\ req.URL.raw = params.URL
        /\ req.Body = params.RequestBody

\* C8 witness: main was given -method get and a body, the request is a GET with it.
C8_Witness ==
    /\ Assembled
    /\ input.caller = "main"
    /\ input.method = lcGET
    /\ req.Method = GET
    /\ req.Body = "{\"a\":1}"

\* The browser a descriptor imitates, and the browser a User-Agent literal names.
DescriptorProfile(d) ==
    CASE d = "HelloChrome_108"  -> "chrome"
      [] d = "HelloFirefox_108" -> "firefox"
      [] d = "HelloIOS_16"      -> "ios"
      [] d = "HelloSafari_16_0" -> "safari"
      [] d = "HelloRandomized"  -> "random"

UserAgentProfile(ua) ==
    CASE ua = UAChrome  -> "chrome"
      [] ua = UAFirefox -> "firefox"
      [] ua = UASafari  -> "safari"
      [] OTHER          -> "other"

\* C9: without a User-Agent from the caller, the default User-Agent names the
\* same profile as the selected descriptor.
C9_DefaultUserAgentMatchesDescriptor ==
    (Assembled /\ UserAgentSpellings(params.Headers) = {}) =>
        /\ UserAgentKey \in DOMAIN req.Header
        /\ UserAgentProfile(req.Header[UserAgentKey][1]) = DescriptorProfile(clientHello)

\* C10: every header name ends with one value, and two invocations with the same
\* mapping yield the same headers.
C10_HeadersDeterministic ==
    Assembled =>
        /\ \A k \in DOMAIN req.Header : Len(req.Header[k]) = 1
        /\ (prev.done /\ prev.hasReq) => req.Header = prev.Header

====
